---- MODULE Spec2Model ----
(***************************************************************************)
(* The two scripts of the repository as one state machine.                 *)
(*                                                                         *)
(*   scan_codebase.py  walks the working directory, uploads every file     *)
(*                     whose name ends in an allow-listed extension, asks  *)
(*                     the service for documentation and writes README.md  *)
(*   test_gemini.py    sends one fixed prompt and prints the answer        *)
(*                                                                         *)
(* A run executes one of the two scripts (variable script).  Names, paths  *)
(* and texts are sequences of characters, so that str.endswith,            *)
(* os.path.join and the f-strings are computed as the code computes them.  *)
(* The remote service and the file system are the environment: the         *)
(* service keeps its own record of the requests it received (attempts,     *)
(* outcomes, genRequests), which the script never reads.                   *)
(***************************************************************************)
EXTENDS Integers, Sequences, FiniteSets, TLC

VARIABLES
    script,          \* which of the two scripts this run executes
    pc,              \* position of the single control path
    fs,              \* the directory tree under the working directory
    readme,          \* the file README.md in the working directory
    oldReadme,       \* README.md as it was when the run started (never read)
    walkStack,       \* os.walk: directories still to be listed
    root,            \* os.walk: path of the directory being yielded
    files,           \* os.walk: names of the non-directories of that directory
    fi,              \* position of the inner loop "for file in files"
    file_path,       \* os.path.join(root, file) of the file being uploaded
    file_objects,    \* the list accumulated by upload_codebase_files
    uploaded_files,  \* module-level name bound at line 29 (<<>> while unbound)
    response,        \* module-level name bound by generate_content (<<>> while unbound)
    stdout,          \* lines printed so far
    traceback,       \* the call an unhandled exception was raised by (<<>> if none)
    exitStatus,      \* <<>> while the process runs, <<code>> once it has ended
    attempts,        \* service side: paths of the upload requests received
    outcomes,        \* service side: outcome of each upload request answered
    genRequests      \* service side: contents of the generation requests received

vars == << script, pc, fs, readme, oldReadme, walkStack, root, files, fi, file_path,
           file_objects, uploaded_files, response, stdout, traceback,
           exitStatus, attempts, outcomes, genRequests >>

-----------------------------------------------------------------------------
(* Bounds of the model *)

\* directories in the tree, the working directory included
MaxDirs == 2

\* files with names drawn from Names in the whole tree
MaxFiles == 3

-----------------------------------------------------------------------------
(* Strings as sequences of characters *)

EndsWith(s, suffix) ==
    /\ Len(s) >= Len(suffix)
    /\ SubSeq(s, Len(s) - Len(suffix) + 1, Len(s)) = suffix

\* the tuple given to file.endswith
Extensions ==
    << << ".", "p", "y" >>,
       << ".", "j", "s" >>,
       << ".", "t", "s" >>,
       << ".", "j", "s", "x" >>,
       << ".", "t", "s", "x" >>,
       << ".", "c", "s", "s" >>,
       << ".", "h", "t", "m", "l" >> >>

\* str.endswith(tuple): some element of the tuple is a suffix
EndsWithAny(s, suffixes) ==
    \E i \in 1..Len(suffixes) : EndsWith(s, suffixes[i])

\* IsCodeFile with the extension looked for anywhere in the name
Contains(s, part) ==
    \E i \in 1..Len(s) :
        i + Len(part) - 1 <= Len(s) /\ SubSeq(s, i, i + Len(part) - 1) = part

IsCodeFile_Anywhere(file) ==
    \E i \in 1..Len(Extensions) : Contains(file, Extensions[i])

\* the condition of line 15
IsCodeFile(file) == EndsWithAny(file, Extensions)

\* os.path.join(root, file) on a root that does not end in a separator
PathJoin(dir, name) == dir \o << "/" >> \o name

\* os.getcwd()
Cwd == << "/", "w" >>

\* the fixed instruction of scan_codebase.py and the fixed prompt of test_gemini.py
DocPrompt == << "Analyze the following uploaded files" >>

TestPrompt == << "What is the capital of France?" >>

OutputName == << "R", "E", "A", "D", "M", "E", ".", "m", "d" >>

-----------------------------------------------------------------------------
(* The environment's choices *)

\* file names a directory may hold
Names ==
    { << "a", ".", "p", "y" >>,
      << "b", ".", "c", "s", "s" >>,
      << "n", ".", "t", "x", "t" >>,
      << "e", ".", "p", "y", ".", "b", "a", "k" >> }

\* the name of directory d below its parent; a directory's name may end in an
\* extension too
DirNames == << << "." >>, << "l", "i", "b", ".", "j", "s" >>, << "s", "r", "c" >>,
               << "t", ".", "p", "y" >> >>

\* messages of the exceptions genai.upload_file may raise
UploadErrors == { << "5", "0", "3" >> }

\* texts the service may generate
Texts == { << "#", "D" >> }

\* README.md before the run
NoFile == [exists |-> FALSE, content |-> << >>]

File(text) == [exists |-> TRUE, content |-> text]

OldReadmes == { NoFile, File(<< "o", "l", "d" >>) }

\* sequences over S without repetition, of length at most n
Listings(S, n) ==
    { s \in UNION { [1..k -> S] : k \in 0..n } :
        \A i, j \in 1..Len(s) : i # j => s[i] # s[j] }

RECURSIVE SumLen(_, _)
SumLen(f, n) == IF n = 0 THEN 0 ELSE Len(f[n]) + SumLen(f, n - 1)

\* path of directory d: the working directory is directory 1
RECURSIVE DirPath(_, _)
DirPath(tree, d) ==
    IF d = 1 THEN Cwd
    ELSE PathJoin(DirPath(tree, tree[d].parent), DirNames[d])

\* subdirectories of d in listing order
SubDirs(tree, d) ==
    LET kids == { c \in DOMAIN tree : tree[c].parent = d }
        RECURSIVE Asc(_)
        Asc(S) == IF S = {} THEN << >>
                  ELSE LET m == CHOOSE x \in S : \A y \in S : x <= y
                       IN  << m >> \o Asc(S \ {m})
    IN  Asc(kids)

\* the non-directories os.walk lists for d: README.md, when it exists, is one
\* of the files of the working directory
ListFiles(tree, rd, d) ==
    IF d = 1 /\ rd.exists THEN << OutputName >> \o tree[d].files
    ELSE tree[d].files

Last(s) == s[Len(s)]

Reverse(s) == [i \in 1..Len(s) |-> s[Len(s) + 1 - i]]

-----------------------------------------------------------------------------
(* Initial states *)

Trees ==
    UNION { { [d \in 1..n |-> [parent |-> par[d], files |-> fl[d]]] :
                 par \in { p \in [1..n -> 0..n] :
                             /\ p[1] = 0
                             /\ \A d \in 2..n : p[d] >= 1 /\ p[d] < d },
                 fl \in { f \in [1..n -> Listings(Names, MaxFiles)] :
                             SumLen(f, n) <= MaxFiles } } :
            n \in 1..MaxDirs }

EmptyTree == [d \in 1..1 |-> [parent |-> 0, files |-> << >>]]

Init ==
    /\ script \in { "scan_codebase", "test_gemini" }
    /\ pc = "configure"
    /\ IF script = "scan_codebase"
       THEN fs \in Trees /\ readme \in OldReadmes
       ELSE fs = EmptyTree /\ readme = NoFile
    /\ oldReadme = readme
    /\ walkStack = << >>
    /\ root = << >>
    /\ files = << >>
    /\ fi = 1
    /\ file_path = << >>
    /\ file_objects = << >>
    /\ uploaded_files = << >>
    /\ response = << >>
    /\ stdout = << >>
    /\ traceback = << >>
    /\ exitStatus = << >>
    /\ attempts = << >>
    /\ outcomes = << >>
    /\ genRequests = << >>

-----------------------------------------------------------------------------
(* Process exit *)

\* exit status of a SystemExit carrying `code`: exit() passes no code (<<>>)
ExitCode(code) == IF code = << >> THEN 0 ELSE code[1]

\* an exception nothing catches: the interpreter prints the trace and the
\* process ends with status 1
Crash(call) ==
    /\ pc' = "crashed"
    /\ traceback' = << call >>
    /\ exitStatus' = << 1 >>

\* the script runs off its last line
Finish ==
    /\ pc' = "done"
    /\ exitStatus' = << 0 >>
    /\ UNCHANGED traceback

Terminal == { "done", "exited", "crashed" }

-----------------------------------------------------------------------------
(* The remote service *)

Digits == << "1", "2", "3", "4", "5", "6", "7", "8", "9" >>

\* number of files the service has stored
Stored == Cardinality({ i \in 1..Len(outcomes) : outcomes[i].ok })

\* the opaque handle the service gives to the next file it stores
NewHandle == << "files/", Digits[Stored + 1] >>

\* what generate_content may return: a response with a text, or a response
\* without one (reading .text of it raises)
Responses == { [text |-> << t >>] : t \in Texts } \cup { [text |-> << >>] }

-----------------------------------------------------------------------------
(* Both scripts: genai.configure and genai.GenerativeModel *)

walkVars == << walkStack, root, files, fi, file_path, file_objects >>

svcVars == << attempts, outcomes, genRequests >>

ConfigureOk ==
    /\ pc = "configure"
    /\ pc' = IF script = "scan_codebase" THEN "start" ELSE "generate"
    /\ UNCHANGED << script, oldReadme, fs, readme, walkVars, uploaded_files, response,
                    stdout, traceback, exitStatus, svcVars >>

ConfigureRaise ==
    /\ pc = "configure"
    /\ Crash("configure")
    /\ UNCHANGED << script, oldReadme, fs, readme, walkVars, uploaded_files, response,
                    stdout, svcVars >>

-----------------------------------------------------------------------------
(* scan_codebase.py: upload_codebase_files *)

\* lines 26, 29, 12: the call, file_objects = [], and os.walk(directory)
\* starting with the top directory on its stack
StartWalk ==
    /\ pc = "start"
    /\ file_objects' = << >>
    /\ walkStack' = << 1 >>
    /\ pc' = "walk"
    /\ UNCHANGED << script, oldReadme, fs, readme, root, files, fi, file_path,
                    uploaded_files, response, stdout, traceback, exitStatus,
                    svcVars >>

\* line 13: os.walk yields the next directory, top-down: it pops the last
\* directory of its stack and pushes that directory's subdirectories reversed
WalkDir ==
    /\ pc = "walk"
    /\ walkStack # << >>
    /\ LET d == Last(walkStack)
       IN  /\ walkStack' = SubSeq(walkStack, 1, Len(walkStack) - 1)
                             \o Reverse(SubDirs(fs, d))
           /\ root' = DirPath(fs, d)
           /\ files' = ListFiles(fs, readme, d)
    /\ fi' = 1
    /\ pc' = "file"
    /\ UNCHANGED << script, oldReadme, fs, readme, file_path, file_objects,
                    uploaded_files, response, stdout, traceback, exitStatus,
                    svcVars >>

\* lines 23, 29: the walk is exhausted; return file_objects
WalkReturn ==
    /\ pc = "walk"
    /\ walkStack = << >>
    /\ uploaded_files' = << file_objects >>
    /\ pc' = "check"
    /\ UNCHANGED << script, oldReadme, fs, readme, walkVars, response, stdout,
                    traceback, exitStatus, svcVars >>

\* line 14: the files of this directory are exhausted
FilesDone ==
    /\ pc = "file"
    /\ fi > Len(files)
    /\ pc' = "walk"
    /\ UNCHANGED << script, oldReadme, fs, readme, walkVars, uploaded_files, response,
                    stdout, traceback, exitStatus, svcVars >>

\* SkipFile that does not move on to the next name
SkipFile_Stuck ==
    /\ pc = "file"
    /\ fi <= Len(files)
    /\ ~IsCodeFile(files[fi])
    /\ UNCHANGED vars

\* lines 14-15: the name does not end in an allow-listed extension
SkipFile ==
    /\ pc = "file"
    /\ fi <= Len(files)
    /\ ~IsCodeFile(files[fi])
    /\ fi' = fi + 1
    /\ UNCHANGED << script, oldReadme, pc, fs, readme, walkStack, root, files, file_path,
                    file_objects, uploaded_files, response, stdout, traceback,
                    exitStatus, svcVars >>

\* lines 14-18: the name matches; the upload request is sent
UploadCall ==
    /\ pc = "file"
    /\ fi <= Len(files)
    /\ IsCodeFile(files[fi])
    /\ file_path' = PathJoin(root, files[fi])
    /\ attempts' = Append(attempts, file_path')
    /\ pc' = "upload"
    /\ UNCHANGED << script, oldReadme, fs, readme, walkStack, root, files, fi,
                    file_objects, uploaded_files, response, stdout, traceback,
                    exitStatus, outcomes, genRequests >>

\* UploadReturn that puts the new handle in front of the list
UploadReturn_Prepends ==
    /\ pc = "upload"
    /\ outcomes' = Append(outcomes,
                          [ok |-> TRUE, handle |-> NewHandle, error |-> << >>])
    /\ file_objects' = << NewHandle >> \o file_objects
    /\ stdout' = Append(stdout, << "Uploaded: " >> \o file_path)
    /\ fi' = fi + 1
    /\ pc' = "file"
    /\ UNCHANGED << script, oldReadme, fs, readme, walkStack, root, files,
                    file_path, uploaded_files, response, traceback, exitStatus,
                    attempts, genRequests >>

\* lines 18-20: the upload returns a handle
UploadReturn ==
    /\ pc = "upload"
    /\ outcomes' = Append(outcomes,
                          [ok |-> TRUE, handle |-> NewHandle, error |-> << >>])
    /\ file_objects' = Append(file_objects, NewHandle)
    /\ stdout' = Append(stdout, << "Uploaded: " >> \o file_path)
    /\ fi' = fi + 1
    /\ pc' = "file"
    /\ UNCHANGED << script, oldReadme, fs, readme, walkStack, root, files, file_path,
                    uploaded_files, response, traceback, exitStatus, attempts,
                    genRequests >>

\* UploadRaise without the try: the exception ends the process
UploadRaise_Uncaught(e) ==
    /\ pc = "upload"
    /\ outcomes' = Append(outcomes,
                          [ok |-> FALSE, handle |-> << >>, error |-> e])
    /\ Crash("upload_file")
    /\ UNCHANGED << script, oldReadme, fs, readme, walkVars, uploaded_files,
                    response, stdout, attempts, genRequests >>

\* lines 18, 21-22: the upload raises; the exception is caught and logged
UploadRaise(e) ==
    /\ pc = "upload"
    /\ outcomes' = Append(outcomes,
                          [ok |-> FALSE, handle |-> << >>, error |-> e])
    /\ stdout' = Append(stdout, << "Failed to upload " >> \o file_path
                                   \o << ": " >> \o e)
    /\ fi' = fi + 1
    /\ pc' = "file"
    /\ UNCHANGED << script, oldReadme, fs, readme, walkStack, root, files, file_path,
                    file_objects, uploaded_files, response, traceback,
                    exitStatus, attempts, genRequests >>

-----------------------------------------------------------------------------
(* scan_codebase.py: the module level after the walk *)

NoFilesLine == << "No files were uploaded. Please check file extensions or directory." >>

\* NoFiles without the test of line 31: the request is sent with no handle
NoFiles_FallsThrough ==
    /\ pc = "check"
    /\ uploaded_files[1] = << >>
    /\ genRequests' = Append(genRequests, << DocPrompt >> \o uploaded_files[1])
    /\ pc' = "generating"
    /\ UNCHANGED << script, oldReadme, fs, readme, walkVars, uploaded_files,
                    response, stdout, traceback, exitStatus, attempts,
                    outcomes >>

\* lines 31-32
NoFiles ==
    /\ pc = "check"
    /\ uploaded_files[1] = << >>
    /\ stdout' = Append(stdout, NoFilesLine)
    /\ pc' = "exit"
    /\ UNCHANGED << script, oldReadme, fs, readme, walkVars, uploaded_files, response,
                    traceback, exitStatus, svcVars >>

\* Exit with a failure status: exit(1)
Exit_Status1 ==
    /\ pc = "exit"
    /\ exitStatus' = << ExitCode(<< 1 >>) >>
    /\ pc' = "exited"
    /\ UNCHANGED << script, oldReadme, fs, readme, walkVars, uploaded_files,
                    response, stdout, traceback, svcVars >>

\* line 33: exit()
Exit ==
    /\ pc = "exit"
    /\ exitStatus' = << ExitCode(<< >>) >>
    /\ pc' = "exited"
    /\ UNCHANGED << script, oldReadme, fs, readme, walkVars, uploaded_files, response,
                    stdout, traceback, svcVars >>

\* GenerateCall with README.md opened for writing before the request
GenerateCall_OpensFirst ==
    /\ pc = "check"
    /\ uploaded_files[1] # << >>
    /\ readme' = File(<< >>)
    /\ genRequests' = Append(genRequests, << DocPrompt >> \o uploaded_files[1])
    /\ pc' = "generating"
    /\ UNCHANGED << script, oldReadme, fs, walkVars, uploaded_files, response,
                    stdout, traceback, exitStatus, attempts, outcomes >>

\* lines 31, 41: the list is not empty; the generation request is sent
GenerateCall ==
    /\ pc = "check"
    /\ uploaded_files[1] # << >>
    /\ genRequests' = Append(genRequests, << DocPrompt >> \o uploaded_files[1])
    /\ pc' = "generating"
    /\ UNCHANGED << script, oldReadme, fs, readme, walkVars, uploaded_files, response,
                    stdout, traceback, exitStatus, attempts, outcomes >>

\* OpenOk in append mode: open("README.md", "a")
OpenOk_Append ==
    /\ pc = "open"
    /\ readme' = File(readme.content)
    /\ pc' = "write"
    /\ UNCHANGED << script, oldReadme, fs, walkVars, uploaded_files, response,
                    stdout, traceback, exitStatus, svcVars >>

\* line 45: open("README.md", "w") creates the file or truncates it
OpenOk ==
    /\ pc = "open"
    /\ readme' = File(<< >>)
    /\ pc' = "write"
    /\ UNCHANGED << script, oldReadme, fs, walkVars, uploaded_files, response, stdout,
                    traceback, exitStatus, svcVars >>

OpenRaise ==
    /\ pc = "open"
    /\ Crash("open")
    /\ UNCHANGED << script, oldReadme, fs, readme, walkVars, uploaded_files, response,
                    stdout, svcVars >>

\* line 46 and the end of the with block: the text is written after what the
\* file holds since it was opened, and the script ends
WriteOk ==
    /\ pc = "write"
    /\ readme' = File(readme.content \o response[1].text[1])
    /\ Finish
    /\ UNCHANGED << script, oldReadme, fs, walkVars, uploaded_files, response, stdout,
                    svcVars >>

\* line 46: the write (or the flush at close) raises after n characters
WriteRaise ==
    /\ pc = "write"
    /\ \E n \in 0..Len(response[1].text[1]) - 1 :
          readme' = File(readme.content \o SubSeq(response[1].text[1], 1, n))
    /\ Crash("write")
    /\ UNCHANGED << script, oldReadme, fs, walkVars, uploaded_files, response, stdout,
                    svcVars >>

-----------------------------------------------------------------------------
(* Both scripts: generate_content and print(response.text) *)

\* TestCall with another prompt
TestCall_OtherPrompt ==
    /\ pc = "generate"
    /\ genRequests' = Append(genRequests, << "What is the capital of Spain?" >>)
    /\ pc' = "generating"
    /\ UNCHANGED << script, oldReadme, fs, readme, walkVars, uploaded_files,
                    response, stdout, traceback, exitStatus, attempts,
                    outcomes >>

\* test_gemini.py line 10: the request is sent
TestCall ==
    /\ pc = "generate"
    /\ genRequests' = Append(genRequests, TestPrompt)
    /\ pc' = "generating"
    /\ UNCHANGED << script, oldReadme, fs, readme, walkVars, uploaded_files, response,
                    stdout, traceback, exitStatus, attempts, outcomes >>

\* scan_codebase.py line 41, test_gemini.py line 10: the call returns
GenerateReturn(r) ==
    /\ pc = "generating"
    /\ response' = << r >>
    /\ pc' = "print"
    /\ UNCHANGED << script, oldReadme, fs, readme, walkVars, uploaded_files, stdout,
                    traceback, exitStatus, svcVars >>

\* GenerateRaise caught and the request sent again
GenerateRaise_Retry ==
    /\ pc = "generating"
    /\ genRequests' = Append(genRequests, Last(genRequests))
    /\ UNCHANGED << script, oldReadme, pc, fs, readme, walkVars,
                    uploaded_files, response, stdout, traceback, exitStatus,
                    attempts, outcomes >>

\* the call raises; nothing catches it
GenerateRaise ==
    /\ pc = "generating"
    /\ Crash("generate_content")
    /\ UNCHANGED << script, oldReadme, fs, readme, walkVars, uploaded_files, response,
                    stdout, svcVars >>

\* scan_codebase.py line 42: print(response.text)
PrintText ==
    /\ pc = "print"
    /\ script = "scan_codebase"
    /\ response[1].text # << >>
    /\ stdout' = Append(stdout, response[1].text[1])
    /\ pc' = "open"
    /\ UNCHANGED << script, oldReadme, fs, readme, walkVars, uploaded_files, response,
                    traceback, exitStatus, svcVars >>

\* test_gemini.py line 11: print(response.text), the last line of the script
TestPrint ==
    /\ pc = "print"
    /\ script = "test_gemini"
    /\ response[1].text # << >>
    /\ stdout' = Append(stdout, response[1].text[1])
    /\ Finish
    /\ UNCHANGED << script, oldReadme, fs, readme, walkVars, uploaded_files, response,
                    svcVars >>

\* response.text raises: the response holds no text
TextRaise ==
    /\ pc = "print"
    /\ response[1].text = << >>
    /\ Crash("text")
    /\ UNCHANGED << script, oldReadme, fs, readme, walkVars, uploaded_files, response,
                    stdout, svcVars >>

-----------------------------------------------------------------------------

Next ==
    \/ ConfigureOk
    \/ ConfigureRaise
    \/ StartWalk
    \/ WalkDir
    \/ WalkReturn
    \/ FilesDone
    \/ SkipFile
    \/ UploadCall
    \/ UploadReturn
    \/ \E e \in UploadErrors : UploadRaise(e)
    \/ NoFiles
    \/ Exit
    \/ GenerateCall
    \/ TestCall
    \/ \E r \in Responses : GenerateReturn(r)
    \/ GenerateRaise
    \/ PrintText
    \/ TestPrint
    \/ TextRaise
    \/ OpenOk
    \/ OpenRaise
    \/ WriteOk
    \/ WriteRaise

Spec == Init /\ [][Next]_vars

\* the interpreter runs the next statement, a remote call apart
LocalNext ==
    \/ ConfigureOk
    \/ ConfigureRaise
    \/ StartWalk
    \/ WalkDir
    \/ WalkReturn
    \/ FilesDone
    \/ SkipFile
    \/ UploadCall
    \/ NoFiles
    \/ Exit
    \/ GenerateCall
    \/ TestCall
    \/ PrintText
    \/ TestPrint
    \/ TextRaise
    \/ OpenOk
    \/ OpenRaise
    \/ WriteOk
    \/ WriteRaise

\* the interpreter never pauses between statements; nothing is assumed of the
\* remote service
FairSpec == Spec /\ WF_vars(LocalNext)

-----------------------------------------------------------------------------
(* What the properties speak of *)

Scan == script = "scan_codebase"

\* upload_codebase_files has returned
WalkDone ==
    /\ Scan
    /\ uploaded_files # << >>

\* a file's extension: its name from the last dot on
Extension(name) ==
    LET dots == { i \in 1..Len(name) : name[i] = "." }
    IN  IF dots = {} THEN << >>
        ELSE SubSeq(name, CHOOSE i \in dots : \A j \in dots : j <= i, Len(name))

AllowList ==
    { << ".", "p", "y" >>, << ".", "j", "s" >>, << ".", "t", "s" >>,
      << ".", "j", "s", "x" >>, << ".", "t", "s", "x" >>,
      << ".", "c", "s", "s" >>, << ".", "h", "t", "m", "l" >> }

\* every file of the tree, top-down: the files of a directory in listing
\* order, then its subdirectories in listing order
RECURSIVE TreeFiles(_, _, _)
RECURSIVE TreeFilesOf(_, _, _)
TreeFiles(tree, rd, d) ==
    LET names == ListFiles(tree, rd, d)
        dir == DirPath(tree, d)
    IN  [i \in 1..Len(names) |->
            [name |-> names[i], path |-> dir \o << "/" >> \o names[i]]]
        \o TreeFilesOf(tree, rd, SubDirs(tree, d))

TreeFilesOf(tree, rd, ds) ==
    IF ds = << >> THEN << >>
    ELSE TreeFiles(tree, rd, Head(ds)) \o TreeFilesOf(tree, rd, Tail(ds))

AllFiles == TreeFiles(fs, oldReadme, 1)

\* the N files with an allow-listed extension, in the order of the walk
Matching ==
    LET Allowed(f) == Extension(f.name) \in AllowList
    IN  SelectSeq(AllFiles, Allowed)

MatchingPaths ==
    LET m == Matching
    IN  [i \in 1..Len(m) |-> m[i].path]

\* the handles of the uploads that succeeded, in the order of the requests
RECURSIVE OkHandles(_)
OkHandles(outs) ==
    IF outs = << >> THEN << >>
    ELSE IF Head(outs).ok THEN << Head(outs).handle >> \o OkHandles(Tail(outs))
         ELSE OkHandles(Tail(outs))

Failed == { i \in 1..Len(outcomes) : ~outcomes[i].ok }

-----------------------------------------------------------------------------
(* Properties of scan_codebase.py *)

\* C1: a run in which at least one upload succeeded ends having sent exactly
\* one generation request, whose content is the fixed prompt followed by the
\* handles of the successful uploads and nothing else, the i-th request being
\* the upload of the i-th matching file of the walk
C1_OneGenerationWithOkHandles ==
    (Scan /\ pc \in Terminal /\ Stored >= 1) =>
        /\ Len(genRequests) = 1
        /\ genRequests[1] = << DocPrompt >> \o OkHandles(outcomes)
        /\ attempts = MatchingPaths
        /\ Len(outcomes) = Len(attempts)
        /\ \A i, j \in 1..Len(outcomes) :
              (i # j /\ outcomes[i].ok /\ outcomes[j].ok)
                 => outcomes[i].handle # outcomes[j].handle

C1_Witness ==
    /\ Scan
    /\ pc = "done"
    /\ Stored >= 2
    /\ Failed # {}
    /\ \E i \in Failed : i < Len(outcomes)

\* C2: while no upload has succeeded no generation request has been sent and
\* README.md is as it was; once the walk has returned without a handle the run
\* can only print the diagnostic and exit
C2_NoUploadNoGeneration ==
    (Scan /\ Stored = 0) =>
        /\ genRequests = << >>
        /\ response = << >>
        /\ readme = oldReadme
        /\ WalkDone => pc \in { "check", "exit", "exited" }
        /\ pc \in { "exit", "exited" } =>
              (stdout # << >> /\ Last(stdout) = NoFilesLine)
        /\ pc \in Terminal \ { "exited" } =>
              (pc = "crashed" /\ traceback = << "configure" >>)

C2_Witness ==
    /\ Scan
    /\ pc = "exited"
    /\ Len(attempts) >= 2
    /\ Failed = 1..Len(attempts)
    /\ oldReadme.exists

\* C3: the uploads requested are always uploads of files with an allow-listed
\* extension, each requested once, and when the walk has returned there has
\* been exactly one request per such file of the tree, whatever the outcomes
C3_OneAttemptPerMatchingFile ==
    Scan =>
        LET expected == MatchingPaths
        IN  /\ Len(attempts) <= Len(expected)
            /\ attempts = SubSeq(expected, 1, Len(attempts))
            /\ WalkDone => Len(attempts) = Len(expected)

C3_Witness ==
    /\ WalkDone
    /\ Len(attempts) >= 2
    /\ Len(AllFiles) >= Len(attempts) + 2
    /\ Failed # {}
    /\ Stored >= 1

\* C4: a step in which an upload fails leaves the accumulated handles as they
\* were, prints the failure with the path and the message, and goes on to the
\* next file without ending the process
C4_FailureStep ==
    (Len(outcomes') = Len(outcomes) + 1 /\ ~Last(outcomes').ok) =>
        /\ file_objects' = file_objects
        /\ stdout' = Append(stdout, << "Failed to upload " >> \o Last(attempts)
                                      \o << ": " >> \o Last(outcomes').error)
        /\ pc' = "file"
        /\ fi' = fi + 1
        /\ exitStatus' = << >>
        /\ traceback' = << >>

\* C4: when the walk has returned, every matching file after a failed one
\* has been attempted
C4_WalkContinues ==
    (WalkDone /\ Failed # {}) =>
        LET expected == MatchingPaths
        IN  \A i \in Failed :
                \A j \in (i + 1)..Len(expected) :
                    j <= Len(attempts) /\ attempts[j] = expected[j]

\* C4: a failed upload is caught, logged and skipped, and the walk continues
C4_UploadFailureIsSkipped == [][C4_FailureStep]_vars /\ []C4_WalkContinues

C4_Witness ==
    /\ WalkDone
    /\ \E i \in Failed : i < Len(attempts) /\ outcomes[i + 1].ok

\* C5: a run that completes leaves README.md holding the text of the response
\* and nothing else, whatever the file held before
C5_ReadmeIsResponseText ==
    (Scan /\ pc = "done") =>
        /\ readme.exists
        /\ readme.content = response[1].text[1]
        /\ Last(stdout) = readme.content

C5_Witness ==
    /\ Scan
    /\ pc = "done"
    /\ oldReadme.exists
    /\ oldReadme.content # << >>
    /\ readme.content # oldReadme.content

\* C6: a generation call that does not return ends the process in failure,
\* with no new request of either kind
C6_FailureStep ==
    (Scan /\ pc = "generating" /\ pc' # "print") =>
        /\ pc' = "crashed"
        /\ traceback' = << "generate_content" >>
        /\ exitStatus' = << 1 >>
        /\ genRequests' = genRequests
        /\ attempts' = attempts

\* C6: nothing happens after the process has ended
C6_EndIsFinal == (Scan /\ pc \in Terminal) => UNCHANGED vars

\* C6: at most one generation request is ever sent; a failed one is not
\* retried and ends the process
C6_NoRetry ==
    /\ [](Scan => Len(genRequests) <= 1)
    /\ [][C6_FailureStep]_vars
    /\ [][C6_EndIsFinal]_vars

C6_Witness ==
    /\ Scan
    /\ pc = "crashed"
    /\ traceback = << "generate_content" >>
    /\ Len(genRequests) = 1

\* C7: the process has an exit status exactly when it has ended: 0 when the
\* script ran to its end, 0 as well after the early exit (exit() names no
\* status), and a non-zero status after an unhandled exception
C7_ExitStatus ==
    Scan =>
        /\ (pc \in Terminal) <=> (exitStatus # << >>)
        /\ pc = "done" => exitStatus = << 0 >>
        /\ pc = "exited" =>
              (exitStatus = << 0 >> /\ Last(stdout) = NoFilesLine)
        /\ pc = "crashed" =>
              /\ exitStatus[1] # 0
              /\ traceback # << >>
              /\ traceback[1] \in { "configure", "generate_content", "text",
                                    "open", "write" }
        /\ pc # "crashed" => traceback = << >>

C7_Witness ==
    /\ Scan
    /\ pc = "exited"
    /\ exitStatus = << 0 >>

\* C9: every run ends, unless from some point on it waits for ever for the
\* answer to one upload call or to the generation call
C9_Terminates ==
    \/ <>(pc \in Terminal)
    \/ <>[](pc = "upload")
    \/ <>[](pc = "generating")

C9_Witness ==
    /\ Scan
    /\ pc \in Terminal
    /\ Len(outcomes) >= 3

\* C10: README.md changes only in a step taken while a response is held whose
\* text has been printed
C10_ChangeStep ==
    (readme' # readme) =>
        /\ response # << >>
        /\ response[1].text # << >>
        /\ stdout # << >>
        /\ Last(stdout) = response[1].text[1]
        /\ pc \in { "open", "write" }

\* C10: README.md is opened only after the response text has been obtained
\* and printed; a run whose generation call or text access fails leaves the
\* file as it was
C10_ReadmeAfterResponse ==
    /\ [][C10_ChangeStep]_vars
    /\ []((pc = "crashed" /\ traceback[1] \in { "generate_content", "text" })
            => readme = oldReadme)

C10_Witness ==
    /\ Scan
    /\ pc = "crashed"
    /\ traceback = << "text" >>
    /\ oldReadme.exists

-----------------------------------------------------------------------------
(* Properties of test_gemini.py *)

\* C8: the script sends one request, the literal prompt, and prints the text
\* of the response and nothing else; if the call fails nothing is printed and
\* the process ends in failure
C8_OneRequestOnePrint ==
    (script = "test_gemini") =>
        /\ Len(genRequests) <= 1
        /\ attempts = << >>
        /\ genRequests # << >> =>
              genRequests[1] = << "What is the capital of France?" >>
        /\ pc \in { "generating", "print", "done" } => Len(genRequests) = 1
        /\ pc = "done" =>
              /\ response[1].text # << >>
              /\ stdout = << response[1].text[1] >>
              /\ exitStatus = << 0 >>
        /\ pc # "done" => stdout = << >>
        /\ pc = "crashed" => exitStatus = << 1 >>

C8_Witness ==
    /\ script = "test_gemini"
    /\ pc = "done"
    /\ Len(stdout) = 1

====
